---- MODULE Spec2Model ----
(***************************************************************************)
(* A model of perf_timer.  First its ApproximateHistogram                  *)
(* (src/src/perf_timer/_histogram.py): the streaming histogram that keeps  *)
(* at most max_bins (point, count) bins and a parallel array of the gaps   *)
(* between neighbouring bins.  Then its timers                             *)
(* (src/src/perf_timer/_impl.py): one PerfTimer or ThreadPerfTimer object  *)
(* with its observer, entered and exited by the threads of the program.    *)
(*                                                                         *)
(* Numbers.  A Python float is modelled as a fixed-point number: the       *)
(* integer x stands for the real x / Unit.  Unit is chosen so that every   *)
(* quotient the code forms from at most MaxAdds integer points and a       *)
(* quantile fraction k / QDen is exact in that format; where a result is   *)
(* not representable (a square root, a product of two merged-bin           *)
(* quantities) it is rounded down to the resolution 1 / Unit.  Python ints *)
(* (counts, indices, max_bins) are plain integers.                         *)
(*                                                                         *)
(* Lists.  A Python list or tuple is a sequence; operators take the        *)
(* source's 0-based indices and At(l, i) reads l[i].                       *)
(*                                                                         *)
(* Exceptions.  An operation that can raise yields a record with a field   *)
(* exc ("none" when it returned); the mutations made before the raise      *)
(* are kept, as they are in the object.                                    *)
(***************************************************************************)
EXTENDS Integers, Sequences, FiniteSets, TLC

\* ------------------------------------------------------------- bounds
\* add() is called at most MaxAdds times in a behaviour
MaxAdds == 4
\* the histogram is constructed with max_bins in 0..MaxBinsBound
MaxBinsBound == 3
\* quantile fractions are the multiples of 1/QDen in [-1/QDen, 1 + 1/QDen]
QDen == 4

\* --------------------------------------------------------- fixed point
RECURSIVE Gcd(_, _)
Gcd(a, b) == IF b = 0 THEN a ELSE Gcd(b, a % b)

RECURSIVE LcmUpTo(_)
LcmUpTo(n) == IF n <= 1 THEN 1 ELSE LET m == LcmUpTo(n - 1) IN (m * n) \div Gcd(m, n)

\* every weight w <= MaxAdds divides Scale
Scale == LcmUpTo(MaxAdds)

\* the float 1.0
Unit == Scale * 2 * QDen

\* int -> float
Float(n) == n * Unit

\* float * float; float * int and float / int are * and \div
FMul(x, y) == (x * y) \div Unit

\* math.inf: above every value a bin, a sum or a quantile takes here
Inf == Float(3) * (MaxAdds + 1)

Min2(a, b) == IF a <= b THEN a ELSE b
Max2(a, b) == IF a >= b THEN a ELSE b

RECURSIVE IsqrtLoop(_, _, _)
IsqrtLoop(n, lo, hi) ==
    IF lo >= hi THEN lo
    ELSE LET mid == (lo + hi + 1) \div 2
         IN IF mid * mid <= n THEN IsqrtLoop(n, mid, hi) ELSE IsqrtLoop(n, lo, mid - 1)

\* the integer square root of n >= 0; 46340 is the largest root of a 32-bit
\* integer, so no square formed in the search overflows
Isqrt(n) == IsqrtLoop(n, 0, Min2(n, 46340))

\* sqrt of a float >= 0, rounded down to the resolution
FSqrt(x) == Isqrt(x * Unit)

\* ---------------------------------------------------------- Python lists
At(l, i) == l[i + 1]

InRange(l, i) == 0 <= i /\ i < Len(l)

\* l.insert(i, x) for i >= 0: an index past the end appends
PyInsert(l, i, x) ==
    LET k == Min2(i, Len(l))
    IN SubSeq(l, 1, k) \o <<x>> \o SubSeq(l, k + 1, Len(l))

\* l[i] = x for an index in range
PySetItem(l, i, x) == [l EXCEPT ![i + 1] = x]

\* l[a:b] = s for 0 <= a <= b: both ends are clamped to len(l)
PySetSlice(l, a, b, s) ==
    LET lo == Min2(a, Len(l))
        hi == Max2(lo, Min2(b, Len(l)))
    IN SubSeq(l, 1, lo) \o s \o SubSeq(l, hi + 1, Len(l))

\* l[a:b] for 0 <= a <= b
PySlice(l, a, b) == SubSeq(l, Min2(a, Len(l)) + 1, Min2(b, Len(l)))

\* Python's < on tuples of numbers: lexicographic
RECURSIVE PyTupleLt(_, _)
PyTupleLt(a, b) ==
    IF a = <<>> \/ b = <<>> THEN Len(a) < Len(b)
    ELSE IF Head(a) # Head(b) THEN Head(a) < Head(b)
    ELSE PyTupleLt(Tail(a), Tail(b))

RECURSIVE bisect_loop(_, _, _, _)
bisect_loop(a, x, lo, hi) ==
    IF lo < hi
    THEN LET mid == (lo + hi) \div 2
         IN IF PyTupleLt(x, At(a, mid)) THEN bisect_loop(a, x, lo, mid)
            ELSE bisect_loop(a, x, mid + 1, hi)
    ELSE lo

\* mutant: the search stops one short of the end, so it never answers len(a)
bisect_right_short(a, x) == bisect_loop(a, x, 0, Len(a) - 1)

\* bisect.bisect_right(a, x) on a list of tuples
bisect_right(a, x) == bisect_loop(a, x, 0, Len(a))

\* ------------------------------------------------ ApproximateHistogram
VARIABLES
    hist,     \* the ApproximateHistogram object: its fields
    points,   \* history: the arguments of the add() calls made, in order
    addExc,   \* the exception the latest add() raised, "none" if it returned
    result    \* the latest call: [op, arg, exc, ret]

\* _impl.py: the module's globals, one timer object, the threads using it
VARIABLES
    timer,                    \* the timer object: its class, observer and fields
    _start_time_by_instance,  \* the dict that is the ContextVar's default
    _timers,                  \* the WeakSet of the live timers
    time_fn_calls,            \* how many times time_fn has been called
    log,                      \* the lines passed to log_fn, in order
    _lock,                    \* timer._lock: [holder, lock_count]
    threads,                  \* per thread: position and local variables
    done                      \* history: per with-block that completed
                              \* normally, its own exit reading minus its
                              \* own enter reading

\* _impl.py: the timers of the program, by identity; _trio.py: the
\* descheduled-time instrument and the tasks of the Trio scheduler
VARIABLES
    objects,                  \* per timer identity: its life and its fields
    instrument,               \* _instrument: installed, _info_by_task
    tasks,                    \* per Trio task: its state and its history
    clock                     \* what the instrument's time_fn returns now

histvars == <<hist, points, addExc, result>>
sidevars == <<objects, instrument, tasks, clock>>
timervars == <<timer, _start_time_by_instance, _timers, time_fn_calls, log,
               _lock, threads, done>>
vars == <<hist, points, addExc, result, timer, _start_time_by_instance,
          _timers, time_fn_calls, log, _lock, threads, done, objects,
          instrument, tasks, clock>>

\* the values a call returns
PyNone == [type |-> "None"]
PyInt(n) == [type |-> "int", val |-> n]
PyFloat(x) == [type |-> "float", val |-> x]
PyList(s) == [type |-> "list", items |-> s]

\* ApproximateHistogram.__init__
__init__(max_bins) ==
    [_max_bins |-> max_bins,
     _bins     |-> <<>>,
     _costs    |-> <<>>,
     _count    |-> 0,
     _min      |-> Inf,
     _max      |-> 0 - Inf]

\* _update_costs(costs, l, i, val): update costs to reflect l.insert(i, val),
\* which the caller has already done
_update_costs(costs, l, i, val) ==
    IF i > 0
    THEN LET new_cost == At(val, 0) - At(At(l, i - 1), 0)
             c1 == PyInsert(costs, i - 1, new_cost)
         IN IF i < Len(c1)
            THEN IF InRange(l, i + 1)
                 THEN [costs |-> PySetItem(c1, i, At(At(l, i + 1), 0) - At(val, 0)),
                       exc |-> "none"]
                 ELSE [costs |-> c1, exc |-> "IndexError"]
            ELSE [costs |-> c1, exc |-> "none"]
    ELSE IF Len(l) > 1
    THEN [costs |-> PyInsert(costs, 0, At(At(l, 1), 0) - At(val, 0)), exc |-> "none"]
    ELSE [costs |-> costs, exc |-> "none"]

\* mutant: the gap to the right neighbour of the merged bin is left as it was
_update_costs_for_merge_stale(costs, l, i, val) ==
    IF i > 0
    THEN [costs |-> PySetSlice(costs, i - 1, i + 1, <<At(val, 0) - At(At(l, i - 1), 0)>>),
          exc |-> "none"]
    ELSE [costs |-> PySetSlice(costs, i, i + 1, <<>>), exc |-> "none"]

\* _update_costs_for_merge(costs, l, i, val): update costs to reflect
\* l[i:i+2] = (val, ), which the caller has already done
_update_costs_for_merge(costs, l, i, val) ==
    IF 0 < i /\ i < Len(costs) - 1
    THEN IF InRange(l, i + 1)
         THEN [costs |-> PySetSlice(costs, i - 1, i + 2,
                                    <<At(val, 0) - At(At(l, i - 1), 0),
                                      At(At(l, i + 1), 0) - At(val, 0)>>),
               exc |-> "none"]
         ELSE [costs |-> costs, exc |-> "IndexError"]
    ELSE IF i > 0
    THEN [costs |-> PySetSlice(costs, i - 1, i + 1, <<At(val, 0) - At(At(l, i - 1), 0)>>),
          exc |-> "none"]
    ELSE IF InRange(l, i + 1)
    THEN [costs |-> PySetSlice(costs, i, i + 2, <<At(At(l, i + 1), 0) - At(val, 0)>>),
          exc |-> "none"]
    ELSE [costs |-> costs, exc |-> "IndexError"]

\* mutant: the new bin is appended, whatever its value
_insert_with_cost_at_end(costs, l, val) ==
    LET i == Len(l)
        l1 == PyInsert(l, i, val)
        u == _update_costs(costs, l1, i, val)
    IN [costs |-> u.costs, l |-> l1, exc |-> u.exc]

\* _insert_with_cost(costs, l, val): the lists after the call, and what it raised
_insert_with_cost(costs, l, val) ==
    LET i == bisect_right(l, val)
        l1 == PyInsert(l, i, val)
        u == _update_costs(costs, l1, i, val)
    IN [costs |-> u.costs, l |-> l1, exc |-> u.exc]

\* mutant: the minimum is taken from the latest point alone
new_min_latest(old, point) == point

\* add: self._min = min(self._min, point); self._max = max(self._max, point)
new_min(old, point) == Min2(old, point)
new_max(old, point) == Max2(old, point)

\* mutant: the merge starts one bin too early
over_capacity_early(bins, max_bins) == Len(bins) >= max_bins

\* mutant: the merge starts one bin too late
over_capacity_late(bins, max_bins) == Len(bins) > max_bins + 1

\* add: if len(bins) > self._max_bins
over_capacity(bins, max_bins) == Len(bins) > max_bins

\* add: costs.index(min(costs)), the lowest index of a minimal cost
RECURSIVE index_of(_, _, _)
index_of(costs, x, i) == IF At(costs, i) = x THEN i ELSE index_of(costs, x, i + 1)

py_min(costs) == CHOOSE c \in {costs[k] : k \in 1..Len(costs)} :
                     \A k \in 1..Len(costs) : c <= costs[k]

\* mutant: of equal smallest costs the rightmost is taken
cheapest_rightmost(costs) ==
    CHOOSE i \in 0..(Len(costs) - 1) :
        /\ At(costs, i) = py_min(costs)
        /\ \A j \in (i + 1)..(Len(costs) - 1) : At(costs, j) # py_min(costs)

cheapest(costs) == index_of(costs, py_min(costs), 0)

\* mutant: the merged bin sits at the midpoint, not at the weighted mean
merged_bin_midpoint(q0, k0, q1, k1) == <<(q0 + q1) \div 2, k0 + k1>>

\* mutant: the merged bin keeps the left bin's count
merged_bin_left_count(q0, k0, q1, k1) == <<(q0 * k0 + q1 * k1) \div (k0 + k1), k0>>

\* mutant: the merged bin sits on the right bin's value
merged_bin_right_value(q0, k0, q1, k1) == <<q1, k0 + k1>>

\* add: the bin that replaces (q0, k0), (q1, k1)
\*   _count = k0 + k1; median = (q0 * k0 + q1 * k1) / _count
merged_bin(q0, k0, q1, k1) ==
    LET _count == k0 + k1
        median == (q0 * k0 + q1 * k1) \div _count
    IN <<median, _count>>

\* add: the merge, lines 70-75, on the object after the insertion
merge(self) ==
    IF self._costs = <<>>
    THEN [self |-> self, exc |-> "ValueError"]      \* min() of an empty list
    ELSE LET i == cheapest(self._costs)
             pair == PySlice(self._bins, i, i + 2)
         IN IF Len(pair) # 2
            THEN [self |-> self, exc |-> "ValueError"]  \* unpacking fewer than two bins
            ELSE LET val == merged_bin(At(At(pair, 0), 0), At(At(pair, 0), 1),
                                       At(At(pair, 1), 0), At(At(pair, 1), 1))
                     bins == PySetSlice(self._bins, i, i + 2, <<val>>)
                     u == _update_costs_for_merge(self._costs, bins, i, val)
                 IN [self |-> [self EXCEPT !._bins = bins, !._costs = u.costs],
                     exc |-> u.exc]

\* ApproximateHistogram.add(point): the object after the call, and what it raised
add(self, point) ==
    LET ins == _insert_with_cost(self._costs, self._bins, <<point, 1>>)
        s1 == [self EXCEPT !._count = self._count + 1,
                           !._min = new_min(self._min, point),
                           !._max = new_max(self._max, point),
                           !._bins = ins.l,
                           !._costs = ins.costs]
    IN IF ins.exc # "none" THEN [self |-> s1, exc |-> ins.exc]
       ELSE IF over_capacity(s1._bins, s1._max_bins) THEN merge(s1)
       ELSE [self |-> s1, exc |-> "none"]

\* sum(f(bin) for bin in bins) over the bins from index i on
RECURSIVE weighted_sum(_, _)
weighted_sum(bins, i) ==
    IF i >= Len(bins) THEN 0
    ELSE At(At(bins, i), 0) * At(At(bins, i), 1) + weighted_sum(bins, i + 1)

\* sum((p - mean) ** 2 * count for p, count in bins) from index i on, kept
\* unrounded: the integer n stands for the real n / Unit^2
RECURSIVE weighted_squares(_, _, _)
weighted_squares(bins, mean, i) ==
    IF i >= Len(bins) THEN 0
    ELSE (At(At(bins, i), 0) - mean) * (At(At(bins, i), 0) - mean) * At(At(bins, i), 1)
         + weighted_squares(bins, mean, i + 1)

\* the properties count, min, max
count(self) == [exc |-> "none", ret |-> PyInt(self._count)]
min(self) == [exc |-> "none", ret |-> PyFloat(self._min)]
max(self) == [exc |-> "none", ret |-> PyFloat(self._max)]

\* mutant: the mean of no points is 0.0
mean_of_none_is_zero(self) ==
    IF self._count = 0 THEN [exc |-> "none", ret |-> PyFloat(0)]
    ELSE [exc |-> "none", ret |-> PyFloat(weighted_sum(self._bins, 0) \div self._count)]

\* mean(): sum(p * count for p, count in self._bins) / self._count
mean(self) ==
    IF self._count = 0 THEN [exc |-> "ZeroDivisionError", ret |-> PyNone]
    ELSE [exc |-> "none", ret |-> PyFloat(weighted_sum(self._bins, 0) \div self._count)]

\* std(): the exception of mean() propagates
std(self) ==
    LET m == mean(self)
    IN IF m.exc # "none" THEN m
       ELSE LET sum_squares == weighted_squares(self._bins, m.ret.val, 0)
                variance == sum_squares \div self._count
            IN [exc |-> "none",
                ret |-> PyFloat(Isqrt(variance))]

\* sum(): the built-in sum of no terms is the int 0
sum(self) ==
    IF self._bins = <<>> THEN [exc |-> "none", ret |-> PyInt(0)]
    ELSE [exc |-> "none", ret |-> PyFloat(weighted_sum(self._bins, 0))]

\* accumulate(bin[1] for bin in bins): item i is the weight of bins[0..i]
RECURSIVE accumulate(_, _)
accumulate(bins, i) == IF i < 0 THEN 0 ELSE At(At(bins, i), 1) + accumulate(bins, i - 1)

\* mutant: the sums are the running weights, no bin is centred
quantile_sums_whole(bins) ==
    [k \in 1..Len(bins) |-> Float(accumulate(bins, k - 1))]

\* quantile: sums = [x - (y/2 if y > 1 else 0) for x, (_, y) in zip(accumulate(...), bins)]
quantile_sums(bins) ==
    [k \in 1..Len(bins) |->
        LET x == accumulate(bins, k - 1)
            y == At(At(bins, k - 1), 1)
        IN Float(x) - (IF y > 1 THEN Float(y) \div 2 ELSE 0)]

\* mutant: the target runs over count, not count - 1, intervals
target_sum_count(q, n) == q * n + Float(1)

\* _quantile: target_sum = q * (self._count - 1) + 1
target_sum(q, n) == q * (n - 1) + Float(1)

\* _quantile: the index of the left bin, bisect_right(sums, target_sum) - 1
left_index(sums, target) ==
    bisect_right([k \in 1..Len(sums) |-> <<sums[k]>>], <<target>>) - 1

\* _quantile, lines 124-128: bp_ratio for the weights l1 and r1 (r1 after
\* the compensation) at offset s
bp_ratio(l1, r1, s) ==
    IF l1 = r1
    THEN [exc |-> "none", val |-> s \div l1]
    ELSE LET radicand == Float(l1 * l1) - 2 * s * (l1 - r1)
         IN IF radicand < 0
            THEN [exc |-> "AssertionError", val |-> 0]
            ELSE [exc |-> "none",
                  val |-> (Float(l1) - FSqrt(radicand)) \div (l1 - r1)]

\* mutant: a right bin of weight 1 is not counted as 2
interpolate_uncompensated(l0, l1, r0, r1, s) ==
    IF l1 <= 1 /\ r1 <= 1
    THEN [exc |-> "none",
          val |-> IF r1 > 0 THEN l0 + FMul(r0 - l0, s) \div r1 ELSE l0]
    ELSE IF l1 = r1
         THEN [exc |-> "none", val |-> FMul(s \div l1, r0 - l0) + l0]
         ELSE LET radicand == Float(l1 * l1) - 2 * s * (l1 - r1)
              IN IF radicand < 0
                 THEN [exc |-> "AssertionError", val |-> 0]
                 ELSE LET ratio == (Float(l1) - FSqrt(radicand)) \div (l1 - r1)
                      IN [exc |-> "none", val |-> FMul(ratio, r0 - l0) + l0]

\* _quantile: lines 115-129, the value between left (l0, l1) and right (r0, r1)
\* at offset s; a negative radicand makes bp_ratio complex and the assert fail
interpolate(l0, l1, r0, r1, s) ==
    IF l1 <= 1 /\ r1 <= 1
    THEN [exc |-> "none",
          val |-> IF r1 > 0 THEN l0 + FMul(r0 - l0, s) \div r1 ELSE l0]
    ELSE LET r1b == IF r1 = 1 THEN 2 ELSE r1
             ratio == bp_ratio(l1, r1b, s)
         IN IF ratio.exc # "none"
            THEN [exc |-> ratio.exc, val |-> 0]
            ELSE [exc |-> "none", val |-> FMul(ratio.val, r0 - l0) + l0]

\* mutant: a fraction at or beyond an end answers the end bin's value
_quantile_end_bins(self, sums, q) ==
    IF q <= 0 /\ self._bins # <<>>
    THEN [exc |-> "none", val |-> At(At(self._bins, 0), 0)]
    ELSE IF q >= Float(1) /\ self._bins # <<>>
    THEN [exc |-> "none", val |-> At(At(self._bins, Len(self._bins) - 1), 0)]
    ELSE LET bins == self._bins
             target == target_sum(q, self._count)
             i == left_index(sums, target)
             left == IF i >= 0 THEN At(bins, i) ELSE <<self._min, 0>>
             right == IF i + 1 < Len(bins) THEN At(bins, i + 1) ELSE <<self._max, 0>>
             s == target - (IF i >= 0 THEN At(sums, i) ELSE Float(1))
         IN interpolate(At(left, 0), At(left, 1), At(right, 0), At(right, 1), s)

\* _quantile, lines 107-114: the bins left and right of the target sum
\* and the offset s of the target from the left bin's sum
neighbours(self, sums, q) ==
    LET bins == self._bins
        target == target_sum(q, self._count)
        i == left_index(sums, target)
        left == IF i >= 0 THEN At(bins, i) ELSE <<self._min, 0>>
        right == IF i + 1 < Len(bins) THEN At(bins, i + 1) ELSE <<self._max, 0>>
    IN [l0 |-> At(left, 0), l1 |-> At(left, 1),
        r0 |-> At(right, 0), r1 |-> At(right, 1),
        s |-> target - (IF i >= 0 THEN At(sums, i) ELSE Float(1))]

\* _quantile(sums, q) for one fraction q
_quantile(self, sums, q) ==
    IF q <= 0 THEN [exc |-> "none", val |-> self._min]
    ELSE IF q >= Float(1) THEN [exc |-> "none", val |-> self._max]
    ELSE LET n == neighbours(self, sums, q)
         IN interpolate(n.l0, n.l1, n.r0, n.r1, n.s)

\* quantile: if isinstance(q, Number): q = (q, )
as_sequence(q) == IF q.type = "list" THEN q.items ELSE <<q.val>>

\* mutant: a number asked for is answered by a number, not by a list
quantile_unwrapped(self, q) ==
    LET qs == as_sequence(q)
        sums == quantile_sums(self._bins)
        each == [k \in 1..Len(qs) |-> _quantile(self, sums, qs[k])]
    IN IF \E k \in 1..Len(qs) : each[k].exc # "none"
       THEN [exc |-> "AssertionError", ret |-> PyNone]
       ELSE IF q.type = "list"
       THEN [exc |-> "none", ret |-> PyList([k \in 1..Len(qs) |-> each[k].val])]
       ELSE [exc |-> "none", ret |-> PyFloat(each[1].val)]

\* quantile(q): list(self._quantile(sums, q_item) for q_item in q)
quantile(self, q) ==
    LET qs == as_sequence(q)
        sums == quantile_sums(self._bins)
        each == [k \in 1..Len(qs) |-> _quantile(self, sums, qs[k])]
    IN IF \E k \in 1..Len(qs) : each[k].exc # "none"
       THEN [exc |-> "AssertionError", ret |-> PyNone]
       ELSE [exc |-> "none", ret |-> PyList([k \in 1..Len(qs) |-> each[k].val])]

\* ------------------------------------------------------------ the machine
\* the points added: -1.0, 0.0 and 2.0 (unequal gaps, and ties by repetition)
Points == {Float(0 - 1), Float(0), Float(2)}

\* a dict with no key
EmptyDict == [k \in {} |-> 0]

\* no timer identity in use, _trio.py not imported
NoSide ==
    /\ objects = <<>>
    /\ instrument = PyNone
    /\ tasks = <<>>
    /\ clock = 0

\* _impl.py as imported, no timer constructed and no thread started
NoTimer ==
    /\ NoSide
    /\ timer = PyNone
    /\ _start_time_by_instance = EmptyDict
    /\ _timers = {}
    /\ time_fn_calls = 0
    /\ log = <<>>
    /\ _lock = PyNone
    /\ threads = <<>>
    /\ done = <<>>

Init ==
    /\ hist \in {__init__(mb) : mb \in 0..MaxBinsBound}
    /\ points = <<>>
    /\ addExc = "none"
    /\ result = [op |-> "__init__", arg |-> PyNone, exc |-> "none", ret |-> PyNone]
    /\ NoTimer

Add(point) ==
    /\ Len(points) < MaxAdds
    /\ LET r == add(hist, point)
       IN /\ hist' = r.self
          /\ addExc' = r.exc
          /\ result' = [op |-> "add", arg |-> PyFloat(point), exc |-> r.exc, ret |-> PyNone]
    /\ points' = Append(points, point)
    /\ UNCHANGED timervars
    /\ UNCHANGED sidevars

\* the fractions asked for: k / QDen for k in -1..QDen + 1
Fractions == {k * (Unit \div QDen) : k \in (0 - 1)..(QDen + 1)}

\* the fractions in [0, 1], in increasing order
AllFractions == [k \in 1..(QDen + 1) |-> (k - 1) * (Unit \div QDen)]

\* quantile() is called with a number, a one-item list, the empty list or
\* the list of all the fractions in [0, 1]
QuantileArgs ==
    {PyFloat(q) : q \in Fractions} \cup {PyList(<<q>>) : q \in Fractions}
        \cup {PyList(<<>>), PyList(AllFractions)}

\* mutant: a call that reads the histogram counts itself as a sample
Query_counting(op, arg, r) ==
    /\ result' = [op |-> op, arg |-> arg, exc |-> r.exc, ret |-> r.ret]
    /\ hist' = [hist EXCEPT !._count = hist._count + 1]
    /\ UNCHANGED <<points, addExc>>
    /\ UNCHANGED timervars
    /\ UNCHANGED sidevars

\* a call that reads the histogram: the object is not assigned
Query(op, arg, r) ==
    /\ result' = [op |-> op, arg |-> arg, exc |-> r.exc, ret |-> r.ret]
    /\ UNCHANGED <<hist, points, addExc>>
    /\ UNCHANGED timervars
    /\ UNCHANGED sidevars

Count == Query("count", PyNone, count(hist))
Min == Query("min", PyNone, min(hist))
Max == Query("max", PyNone, max(hist))
Mean == Query("mean", PyNone, mean(hist))
Std == Query("std", PyNone, std(hist))
Sum == Query("sum", PyNone, sum(hist))
Quantile(q) == Query("quantile", q, quantile(hist, q))

Next ==
    \/ \E point \in Points : Add(point)
    \/ Count
    \/ Min
    \/ Max
    \/ Mean
    \/ Std
    \/ Sum
    \/ \E q \in QuantileArgs : Quantile(q)

Spec == Init /\ [][Next]_vars

\* ------------------------------------------- the worked example, max_bins = 2
\* the points of the example: 1.0, 2.0 and 3.0, added in any order to a
\* histogram constructed with max_bins = 2
ScenarioPoints == {Float(1), Float(2), Float(3)}

ScenarioInit ==
    /\ hist = __init__(2)
    /\ points = <<>>
    /\ addExc = "none"
    /\ result = [op |-> "__init__", arg |-> PyNone, exc |-> "none", ret |-> PyNone]
    /\ NoTimer

ScenarioNext ==
    \/ \E point \in ScenarioPoints : Add(point)
    \/ Count
    \/ Min
    \/ Max
    \/ Mean
    \/ Std
    \/ Sum
    \/ \E q \in QuantileArgs : Quantile(q)

ScenarioSpec == ScenarioInit /\ [][ScenarioNext]_vars

\* ============================================================ the timers
\* _impl.py.  One timer object is constructed; the threads of the program
\* share it.  A thread's with-statement on the timer is __enter__, the body,
\* __exit__; a method that another thread can interleave with is split where
\* it reads and where it writes the shared state.
\*
\* time_fn is any callable (perf_counter, thread_time, a mock): each call
\* returns one of the readings 0.0 .. MaxTime, in the histogram's fixed-point
\* format.  log_fn receives one line per call; a line is modelled by the
\* values it is formatted from, and it has a field runs exactly when its
\* text ends with 'in <count> runs'.

\* the with-statements the threads attempt, all together
MaxBlocks == 3
\* the largest reading of time_fn
MaxTime == 2
\* HistogramObserver.__init__: max_bins=64
DefaultMaxBins == 64

Threads == {1, 2}
\* the thread that runs alone in TimerSpec
MainThread == {1}
Readings == {Float(r) : r \in 0..MaxTime}
\* the key of the one timer object in the module's collections
Self == "self"

\* dict[k] = v and dict.pop(k)
dict_set(d, k, v) == [x \in (DOMAIN d) \cup {k} |-> IF x = k THEN v ELSE d[x]]
dict_pop(d, k) == [x \in (DOMAIN d) \ {k} |-> d[x]]

Front(s) == SubSeq(s, 1, Len(s) - 1)
Last(s) == s[Len(s)]

\* ---- construction
\* _PerfTimerBase.__init__: the fields every timer has (name, time_fn and
\* log_fn are the environment); alive is not a field: it tells that the
\* object has not been finalized
_PerfTimerBase__init__(cls) == [cls |-> cls, _reported |-> FALSE, alive |-> TRUE]

AverageObserver__init__ ==
    [observer |-> "AverageObserver", _count |-> 0, _sum |-> 0, _max |-> 0 - Inf]

StdDevObserver__init__ ==
    [observer |-> "StdDevObserver", _count |-> 0, _mean |-> 0, _m2 |-> 0, _max |-> 0 - Inf]

\* the quantiles the timers are constructed with: 1/QDen .. (QDen-1)/QDen
Quantiles == [k \in 1..(QDen - 1) |-> k * (Unit \div QDen)]

\* HistogramObserver.__init__: the fields set at lines 195-196 once the
\* quantiles are accepted (quantiles_error below); self._hist is the
\* variable hist
HistogramObserver__init__(quantiles) ==
    [observer |-> "HistogramObserver", _quantiles |-> quantiles]

observer__init__(observer) ==
    CASE observer = "AverageObserver" -> AverageObserver__init__
      [] observer = "StdDevObserver" -> StdDevObserver__init__
      [] observer = "HistogramObserver" -> HistogramObserver__init__(Quantiles)

\* _MixinMeta.__call__: the class cls with the observer mixed in
PerfTimer(cls, observer) == _PerfTimerBase__init__(cls) @@ observer__init__(observer)

Observers == {"AverageObserver", "StdDevObserver", "HistogramObserver"}

\* a thread that is not in any call on the timer
\*   entered:  the readings of its own successful __enter__ calls whose
\*             with-block is still open (history)
\*   blocks:   the with-statements it has attempted
\*   rejected: the __enter__ calls of it that raised RuntimeError
\*   exc:      the exception its latest call raised, "none" if it returned
Ready ==
    [pc |-> "ready", entered |-> <<>>, blocks |-> 0, rejected |-> 0,
     current_time |-> 0, exc_type |-> "None", duration |-> 0,
     snapshot |-> PyNone, exc |-> "none"]

\* ---- the observers
\* mutant: _max is the latest duration
AverageObserver_observe_latest(self, duration) ==
    [self EXCEPT !._count = self._count + 1,
                 !._sum = self._sum + duration,
                 !._max = duration]

AverageObserver_observe(self, duration) ==
    [self EXCEPT !._count = self._count + 1,
                 !._sum = self._sum + duration,
                 !._max = Max2(self._max, duration)]

StdDevObserver_observe(self, duration) ==
    LET _count == self._count + 1
        delta == duration - self._mean
        _mean == self._mean + (delta \div _count)
    IN [self EXCEPT !._count = _count,
                    !._mean = _mean,
                    !._m2 = self._m2 + FMul(delta, duration - _mean),
                    !._max = Max2(self._max, duration)]

\* observer._observe(duration) on the fields read at snapshot: the fields
\* and the histogram it writes, and the exception it raises
_observe(snapshot, duration) ==
    CASE snapshot.self.observer = "AverageObserver" ->
             [self |-> AverageObserver_observe(snapshot.self, duration),
              hist |-> snapshot.hist, exc |-> "none"]
      [] snapshot.self.observer = "StdDevObserver" ->
             [self |-> StdDevObserver_observe(snapshot.self, duration),
              hist |-> snapshot.hist, exc |-> "none"]
      [] snapshot.self.observer = "HistogramObserver" ->
             LET r == add(snapshot.hist, duration)
             IN [self |-> snapshot.self, hist |-> r.self, exc |-> r.exc]

\* the fields of the timer that _observe assigns
observer_fields == {"_count", "_sum", "_mean", "_m2", "_max"}

\* mutant: a single run is reported with the summary line too
AverageObserver_report_summary(self) ==
    IF self._count > 0
    THEN <<[avg |-> self._sum \div self._count, max |-> self._max, runs |-> self._count]>>
    ELSE <<>>

AverageObserver_report(self) ==
    IF self._count > 1
    THEN <<[avg |-> self._sum \div self._count, max |-> self._max, runs |-> self._count]>>
    ELSE IF self._count > 0
         THEN <<[duration |-> self._sum]>>
         ELSE <<>>

StdDevObserver_report(self) ==
    IF self._count > 1
    THEN <<[avg |-> self._mean, std |-> FSqrt(self._m2 \div self._count),
            max |-> self._max, runs |-> self._count]>>
    ELSE IF self._count > 0
         THEN <<[duration |-> self._mean]>>
         ELSE <<>>

HistogramObserver_report(self, h) ==
    IF count(h).ret.val > 1
    THEN <<[avg |-> mean(h).ret.val, std |-> std(h).ret.val,
            percentiles |-> quantile(h, PyList(self._quantiles)).ret.items,
            runs |-> count(h).ret.val]>>
    ELSE IF count(h).ret.val > 0
         THEN <<[duration |-> sum(h).ret.val]>>
         ELSE <<>>

\* self._report(): the lines passed to log_fn
_report_lines(self, h) ==
    CASE self.observer = "AverageObserver" -> AverageObserver_report(self)
      [] self.observer = "StdDevObserver" -> StdDevObserver_report(self)
      [] self.observer = "HistogramObserver" -> HistogramObserver_report(self, h)

\* the with-statements attempted so far
RECURSIVE attempted(_)
attempted(T) ==
    IF T = {} THEN 0
    ELSE LET t == CHOOSE u \in T : TRUE
         IN threads[t].blocks + attempted(T \ {t})

\* ---- the steps of a thread t
\* mutant: __enter__ without the check, the start time is overwritten
__enter__unchecked(t) ==
    /\ timer.alive
    /\ threads[t].pc = "ready"
    /\ attempted(Threads) < MaxBlocks
    /\ threads' = [threads EXCEPT ![t].blocks = @ + 1,
                                  ![t].pc = "__enter__",
                                  ![t].exc = "none"]
    /\ UNCHANGED <<sidevars, histvars, timer, _start_time_by_instance, _timers,
                   time_fn_calls, log, _lock, done>>

\* __enter__, line 103: the check; it raises when the timer is a key
__enter__(t) ==
    /\ timer.alive
    /\ threads[t].pc = "ready"
    /\ attempted(Threads) < MaxBlocks
    /\ threads' =
           IF Self \in DOMAIN _start_time_by_instance
           THEN [threads EXCEPT ![t].blocks = @ + 1,
                                ![t].rejected = @ + 1,
                                ![t].exc = "RuntimeError"]
           ELSE [threads EXCEPT ![t].blocks = @ + 1,
                                ![t].pc = "__enter__",
                                ![t].exc = "none"]
    /\ UNCHANGED <<sidevars, histvars, timer, _start_time_by_instance, _timers,
                   time_fn_calls, log, _lock, done>>

\* __enter__, line 105: the start time is read and stored
__enter__store(t, reading) ==
    /\ threads[t].pc = "__enter__"
    /\ time_fn_calls' = time_fn_calls + 1
    /\ _start_time_by_instance' = dict_set(_start_time_by_instance, Self, reading)
    /\ threads' = [threads EXCEPT ![t].pc = "ready",
                                  ![t].entered = Append(@, reading)]
    /\ UNCHANGED <<sidevars, histvars, timer, _timers, log, _lock, done>>

\* __exit__, line 108, called when the body of the innermost open block of
\* t has returned (exc_type "None") or raised
__exit__(t, reading, exc_type) ==
    /\ threads[t].pc = "ready"
    /\ threads[t].entered # <<>>
    /\ time_fn_calls' = time_fn_calls + 1
    /\ threads' = [threads EXCEPT ![t].pc = "__exit__",
                                  ![t].current_time = reading,
                                  ![t].exc_type = exc_type,
                                  ![t].exc = "none"]
    /\ UNCHANGED <<sidevars, histvars, timer, _start_time_by_instance, _timers, log,
                   _lock, done>>

\* the with-block of t is over: raised is the exception that leaves it
block_over(th, raised) ==
    [th EXCEPT !.pc = "ready", !.entered = Front(th.entered),
               !.current_time = 0, !.exc_type = "None", !.duration = 0,
               !.snapshot = PyNone, !.exc = raised]

\* mutant: the start time is popped only when the body returned
__exit__pop_on_success(t) ==
    /\ threads[t].pc = "__exit__"
    /\ IF Self \notin DOMAIN _start_time_by_instance
       THEN /\ threads' = [threads EXCEPT ![t] = block_over(@, "KeyError")]
            /\ UNCHANGED _start_time_by_instance
       ELSE IF threads[t].exc_type = "None"
       THEN /\ _start_time_by_instance' = dict_pop(_start_time_by_instance, Self)
            /\ threads' = [threads EXCEPT
                              ![t].pc = "_observe",
                              ![t].duration = threads[t].current_time
                                                - _start_time_by_instance[Self]]
       ELSE /\ UNCHANGED _start_time_by_instance
            /\ threads' = [threads EXCEPT ![t] = block_over(@, threads[t].exc_type)]
    /\ UNCHANGED <<sidevars, histvars, timer, _timers, time_fn_calls, log, _lock, done>>

\* __exit__, lines 109-111: the start time is popped, the duration formed
__exit__pop(t) ==
    /\ threads[t].pc = "__exit__"
    /\ IF Self \notin DOMAIN _start_time_by_instance
       THEN /\ threads' = [threads EXCEPT ![t] = block_over(@, "KeyError")]
            /\ UNCHANGED _start_time_by_instance
       ELSE LET start_time == _start_time_by_instance[Self]
            IN /\ _start_time_by_instance' = dict_pop(_start_time_by_instance, Self)
               /\ threads' =
                      IF threads[t].exc_type = "None"
                      THEN [threads EXCEPT
                                ![t].pc = "_observe",
                                ![t].duration = threads[t].current_time - start_time]
                      ELSE [threads EXCEPT ![t] = block_over(@, threads[t].exc_type)]
    /\ UNCHANGED <<sidevars, histvars, timer, _timers, time_fn_calls, log, _lock, done>>

\* mutant: the lock is entered without waiting for it to be free
acquire_without_waiting(t) ==
    /\ threads[t].pc = "_observe"
    /\ timer.cls = "ThreadPerfTimer"
    /\ _lock' = [holder |-> t, lock_count |-> _lock.lock_count + 1]
    /\ threads' = [threads EXCEPT ![t].pc = "observer"]
    /\ UNCHANGED <<sidevars, histvars, timer, _start_time_by_instance, _timers,
                   time_fn_calls, log, done>>

\* _ObservationLock._observe: with self._lock, entered when the lock is free
acquire(t) ==
    /\ threads[t].pc = "_observe"
    /\ timer.cls = "ThreadPerfTimer"
    /\ _lock.holder = 0
    /\ _lock' = [holder |-> t, lock_count |-> _lock.lock_count + 1]
    /\ threads' = [threads EXCEPT ![t].pc = "observer"]
    /\ UNCHANGED <<sidevars, histvars, timer, _start_time_by_instance, _timers,
                   time_fn_calls, log, done>>

\* the observer's _observe reads the fields it updates
observe_read(t) ==
    /\ \/ threads[t].pc = "observer"
       \/ threads[t].pc = "_observe" /\ timer.cls = "PerfTimer"
    /\ threads' = [threads EXCEPT ![t].pc = "update",
                                  ![t].snapshot = [self |-> timer, hist |-> hist]]
    /\ UNCHANGED <<sidevars, histvars, timer, _start_time_by_instance, _timers,
                   time_fn_calls, log, _lock, done>>

\* __exit__ returns: the block has completed normally unless _observe raised
returned(t, raised) ==
    /\ threads' = [threads EXCEPT ![t] = block_over(@, raised)]
    /\ done' = IF raised = "none"
               THEN Append(done, threads[t].current_time - Last(threads[t].entered))
               ELSE done

\* the observer's _observe writes the fields it updates
observe_write(t) ==
    /\ threads[t].pc = "update"
    /\ LET r == _observe(threads[t].snapshot, threads[t].duration)
       IN /\ timer' = [f \in DOMAIN timer |->
                          IF f \in observer_fields THEN r.self[f] ELSE timer[f]]
          /\ hist' = IF timer.observer = "HistogramObserver" THEN r.hist ELSE hist
          /\ IF timer.cls = "ThreadPerfTimer"
             THEN /\ threads' = [threads EXCEPT ![t].pc = "release", ![t].exc = r.exc]
                  /\ UNCHANGED done
             ELSE returned(t, r.exc)
    /\ UNCHANGED <<sidevars, points, addExc, result, _start_time_by_instance, _timers,
                   time_fn_calls, log, _lock>>

\* _ObservationLock._observe: the with self._lock is left
release(t) ==
    /\ threads[t].pc = "release"
    /\ _lock' = [_lock EXCEPT !.holder = 0]
    /\ returned(t, threads[t].exc)
    /\ UNCHANGED <<sidevars, histvars, timer, _start_time_by_instance, _timers,
                   time_fn_calls, log>>

\* mutant: _report_once without the check of self._reported
_report_once_unchecked(t) ==
    threads' = [threads EXCEPT ![t].pc = "_report", ![t].exc = "none"]

\* _report_once, line 95: the check of self._reported
_report_once_check(t) ==
    threads' = [threads EXCEPT ![t].pc = IF timer._reported THEN "ready" ELSE "_report",
                               ![t].exc = "none"]

\* timer._report_once() called by the program
_report_once(t) ==
    /\ timer.alive
    /\ threads[t].pc = "ready"
    /\ _report_once_check(t)
    /\ UNCHANGED <<sidevars, histvars, timer, _start_time_by_instance, _timers,
                   time_fn_calls, log, _lock, done>>

\* _atexit: the timer is popped from _timers and its _report_once() called
_atexit(t) ==
    /\ threads[t].pc = "ready"
    /\ Self \in _timers
    /\ _timers' = _timers \ {Self}
    /\ _report_once_check(t)
    /\ UNCHANGED <<sidevars, histvars, timer, _start_time_by_instance, time_fn_calls,
                   log, _lock, done>>

\* __del__: the last reference to the timer is dropped by t when no thread
\* is in a call on it or in a with-block of it; the WeakSet forgets it
__del__(t) ==
    /\ timer.alive
    /\ \A u \in DOMAIN threads : threads[u].pc = "ready" /\ threads[u].entered = <<>>
    /\ timer' = [timer EXCEPT !.alive = FALSE]
    /\ _timers' = _timers \ {Self}
    /\ _report_once_check(t)
    /\ UNCHANGED <<sidevars, histvars, _start_time_by_instance, time_fn_calls, log,
                   _lock, done>>

\* _report_once, lines 96-97: self._report(), then self._reported = True
_report(t) ==
    /\ threads[t].pc = "_report"
    /\ log' = log \o _report_lines(timer, hist)
    /\ timer' = [timer EXCEPT !._reported = TRUE]
    /\ threads' = [threads EXCEPT ![t].pc = "ready"]
    /\ UNCHANGED <<sidevars, histvars, _start_time_by_instance, _timers, time_fn_calls,
                   _lock, done>>

\* ---- one thread: a PerfTimer or a ThreadPerfTimer with any observer
BodyOutcomes == {"None", "Exception"}

TimerStart(classes, observers) ==
    /\ hist = __init__(DefaultMaxBins)
    /\ points = <<>>
    /\ addExc = "none"
    /\ result = [op |-> "__init__", arg |-> PyNone, exc |-> "none", ret |-> PyNone]
    /\ timer \in {PerfTimer(cls, observer) : cls \in classes, observer \in observers}
    /\ _start_time_by_instance = EmptyDict
    /\ _timers = {Self}
    /\ time_fn_calls = 0
    /\ log = <<>>
    /\ _lock = [holder |-> 0, lock_count |-> 0]
    /\ threads = [t \in Threads |-> Ready]
    /\ done = <<>>
    /\ NoSide

TimerInit == TimerStart({"PerfTimer", "ThreadPerfTimer"}, Observers)

TimerNext ==
    \/ \E t \in MainThread : __enter__(t)
    \/ \E t \in MainThread, reading \in Readings : __enter__store(t, reading)
    \/ \E t \in MainThread, reading \in Readings, exc_type \in BodyOutcomes :
           __exit__(t, reading, exc_type)
    \/ \E t \in MainThread : __exit__pop(t)
    \/ \E t \in MainThread : acquire(t)
    \/ \E t \in MainThread : observe_read(t)
    \/ \E t \in MainThread : observe_write(t)
    \/ \E t \in MainThread : release(t)
    \/ \E t \in MainThread : _report_once(t)
    \/ \E t \in MainThread : _atexit(t)
    \/ \E t \in MainThread : __del__(t)
    \/ \E t \in MainThread : _report(t)

TimerSpec == TimerInit /\ [][TimerNext]_vars

\* ---- two threads on one ThreadPerfTimer
\* the timer has the AverageObserver, time_fn returns 0.0 or 1.0, and the
\* program reports with _report_once()
ThreadReadings == {Float(0), Float(1)}

ThreadInit == TimerStart({"ThreadPerfTimer"}, {"AverageObserver"})

ThreadNext ==
    \/ \E t \in Threads : __enter__(t)
    \/ \E t \in Threads, reading \in ThreadReadings : __enter__store(t, reading)
    \/ \E t \in Threads, reading \in ThreadReadings, exc_type \in BodyOutcomes :
           __exit__(t, reading, exc_type)
    \/ \E t \in Threads : __exit__pop(t)
    \/ \E t \in Threads : acquire(t)
    \/ \E t \in Threads : observe_read(t)
    \/ \E t \in Threads : observe_write(t)
    \/ \E t \in Threads : release(t)
    \/ \E t \in Threads : _report_once(t)
    \/ \E t \in Threads : _report(t)

ThreadSpec == ThreadInit /\ [][ThreadNext]_vars

\* ------------------------------------------------- the registry of timers
\* Several timers of one program, none of them timing anything: their
\* construction (with the quantiles a HistogramObserver is asked for), their
\* destruction and the handler run at interpreter exit.
TimerIds == {1, 2}

\* the values a requested quantile takes: below 0, 0, 1/2, 1, above 1
QuantileValues ==
    {0 - (Unit \div QDen), Float(0), Unit \div 2, Float(1), Unit + (Unit \div QDen)}

\* the sequences passed as quantiles=
QuantileChoices ==
    {<<>>} \cup {<<a>> : a \in QuantileValues}
           \cup {<<a, b>> : a, b \in QuantileValues}

\* HistogramObserver.__init__, line 191: all(0 <= x <= 1 for x in quantiles)
quantiles_in_range(quantiles) ==
    \A k \in 1..Len(quantiles) : 0 <= quantiles[k] /\ quantiles[k] <= Float(1)

\* mutant: neighbours compared with <=
quantiles_increasing_or_equal(quantiles) ==
    \A k \in 1..(Len(quantiles) - 1) : quantiles[k] <= quantiles[k + 1]

\* line 193: all(a < b for a, b in zip(quantiles, quantiles[1:]))
quantiles_increasing(quantiles) ==
    \A k \in 1..(Len(quantiles) - 1) : quantiles[k] < quantiles[k + 1]

\* lines 191-194: the exception the validation raises
quantiles_error(quantiles) ==
    IF ~quantiles_in_range(quantiles) THEN "ValueError"
    ELSE IF ~quantiles_increasing(quantiles) THEN "ValueError"
    ELSE "none"

\* a timer not constructed yet
Unborn == [state |-> "unborn", calls |-> 0]

\* cls(name, observer=..., quantiles=...): _PerfTimerBase.__init__ runs
\* first (super().__init__ at line 190) and registers the object, then the
\* observer sets its own fields; HistogramObserver raises before setting
\* _quantiles and _hist when the validation fails.  calls counts the calls
\* of _report_once on the object.
construct(observer, quantiles) ==
    LET base == [state |-> "alive", calls |-> 0] @@ _PerfTimerBase__init__("PerfTimer")
    IN IF observer = "HistogramObserver"
       THEN LET e == quantiles_error(quantiles.items)
            IN IF e # "none"
               THEN [self |-> base @@ [observer |-> observer], exc |-> e]
               ELSE [self |-> base @@ HistogramObserver__init__(quantiles.items),
                     exc |-> "none"]
       ELSE [self |-> base @@ observer__init__(observer), exc |-> "none"]

\* _report of an object that observed nothing: HistogramObserver._report
\* reads self._hist (line 202), the other observers read their count
report_error(o) ==
    IF o.observer = "HistogramObserver" /\ "_quantiles" \notin DOMAIN o
    THEN "AttributeError" ELSE "none"

\* _report_once, lines 94-97, of the object o
report_once_of(o) ==
    LET called == [o EXCEPT !.calls = @ + 1]
    IN IF o._reported THEN [self |-> called, exc |-> "none"]
       ELSE IF report_error(o) # "none"
            THEN [self |-> called, exc |-> report_error(o)]
            ELSE [self |-> [called EXCEPT !._reported = TRUE], exc |-> "none"]

\* the orders in which a set is popped
RECURSIVE Orders(_)
Orders(S) ==
    IF S = {} THEN {<<>>}
    ELSE UNION {{<<i>> \o rest : rest \in Orders(S \ {i})} : i \in S}

\* _atexit, lines 294-297: while _timers: _timers.pop()._report_once()
RECURSIVE atexit_loop(_, _, _)
atexit_loop(objs, registry, order) ==
    IF order = <<>> THEN [objects |-> objs, _timers |-> registry, exc |-> "none"]
    ELSE LET i == Head(order)
             r == report_once_of(objs[i])
             objs2 == [objs EXCEPT ![i] = r.self]
         IN IF r.exc # "none"
            THEN [objects |-> objs2, _timers |-> registry \ {i}, exc |-> r.exc]
            ELSE atexit_loop(objs2, registry \ {i}, Tail(order))

RegistryInit ==
    /\ hist = PyNone
    /\ points = <<>>
    /\ addExc = "none"
    /\ result = [op |-> "import", arg |-> PyNone, ret |-> PyNone, exc |-> "none"]
    /\ timer = PyNone
    /\ _start_time_by_instance = EmptyDict
    /\ _timers = {}
    /\ time_fn_calls = 0
    /\ log = <<>>
    /\ _lock = PyNone
    /\ threads = <<>>
    /\ done = <<>>
    /\ objects = [i \in TimerIds |-> Unborn]
    /\ instrument = PyNone
    /\ tasks = <<>>
    /\ clock = 0

RegistryUnchanged ==
    UNCHANGED <<hist, points, addExc, timer, _start_time_by_instance,
                time_fn_calls, log, _lock, threads, done, instrument, tasks,
                clock>>

\* timer i is constructed; a constructor that raises leaves the object
\* alive for as long as the exception and its traceback are
Construct(i, observer, quantiles) ==
    /\ objects[i].state = "unborn"
    /\ LET r == construct(observer, quantiles)
       IN /\ objects' = [objects EXCEPT ![i] = r.self]
          /\ _timers' = _timers \cup {i}
          /\ result' = [op |-> "__init__", arg |-> quantiles,
                        ret |-> IF r.exc = "none" THEN PyInt(i) ELSE PyNone,
                        exc |-> r.exc]
    /\ RegistryUnchanged

\* the last reference to timer i is dropped: __del__ (lines 99-100) calls
\* _report_once, an exception of which is printed and ignored, and the
\* WeakSet forgets the object
Destroy(i) ==
    /\ objects[i].state = "alive"
    /\ objects' = [objects EXCEPT ![i] =
                      [report_once_of(objects[i]).self EXCEPT !.state = "finalized"]]
    /\ _timers' = _timers \ {i}
    /\ result' = [op |-> "__del__", arg |-> PyInt(i), ret |-> PyNone, exc |-> "none"]
    /\ RegistryUnchanged

\* the handler registered with atexit runs, popping in the order given
AtExit(order) ==
    /\ LET r == atexit_loop(objects, _timers, order)
       IN /\ objects' = r.objects
          /\ _timers' = r._timers
          /\ result' = [op |-> "_atexit", arg |-> PyNone, ret |-> PyNone,
                        exc |-> r.exc]
    /\ RegistryUnchanged

RegistryNext ==
    \/ \E i \in TimerIds : \E observer \in {"AverageObserver", "StdDevObserver"} :
          Construct(i, observer, PyNone)
    \/ \E i \in TimerIds : \E quantiles \in QuantileChoices :
          Construct(i, "HistogramObserver", PyList(quantiles))
    \/ \E i \in TimerIds : Destroy(i)
    \/ \E order \in Orders(_timers) : AtExit(order)

RegistrySpec == RegistryInit /\ [][RegistryNext]_vars

\* ------------------------------------------- descheduled time under Trio
\* _trio.py: the instrument that measures, for the tasks asked about, the
\* time they spend descheduled.  The scheduler runs one task at a time and
\* tells every installed instrument before_task_step, task_exited (when
\* the step ends the task) and after_task_step.
TaskIds == {1, 2}
MaxSteps == 3     \* task steps the scheduler takes
MaxClock == 2     \* the clock goes from 0 to MaxClock

\* _TimeInfo(), lines 15-18
_TimeInfo == [deschedule_start |-> Float(0), elapsed_descheduled |-> Float(0)]

\* _DescheduledTimeInstrument.__init__, lines 24-26; installed is the
\* scheduler's knowledge of the instrument
_DescheduledTimeInstrument__init__ == [installed |-> FALSE, _info_by_task |-> EmptyDict]

\* mutant: the start of the deschedule is not recorded
after_task_step_forgetful(self, task, now) ==
    IF task \in DOMAIN self._info_by_task
    THEN [self |-> self, calls |-> 1]
    ELSE [self |-> self, calls |-> 0]

\* after_task_step, lines 28-31; calls is the number of calls of time_fn
after_task_step(self, task, now) ==
    IF task \in DOMAIN self._info_by_task
    THEN [self |-> [self EXCEPT !._info_by_task[task].deschedule_start = now],
          calls |-> 1]
    ELSE [self |-> self, calls |-> 0]

\* mutant: the entry is looked up with [] of the defaultdict
before_task_step_indexing(self, task, now) ==
    LET info == IF task \in DOMAIN self._info_by_task
                THEN self._info_by_task[task] ELSE _TimeInfo
    IN [self |-> [self EXCEPT !._info_by_task =
                     dict_set(@, task,
                              [info EXCEPT !.elapsed_descheduled =
                                  @ + (now - info.deschedule_start)])],
        calls |-> 1]

\* before_task_step, lines 33-36
before_task_step(self, task, now) ==
    IF task \in DOMAIN self._info_by_task
    THEN [self |-> [self EXCEPT !._info_by_task[task].elapsed_descheduled =
                       @ + (now - self._info_by_task[task].deschedule_start)],
          calls |-> 1]
    ELSE [self |-> self, calls |-> 0]

\* mutant: the instrument is removed with the first tracked task that exits
task_exited_eager(self, task) ==
    IF task \in DOMAIN self._info_by_task
    THEN [installed |-> FALSE, _info_by_task |-> dict_pop(self._info_by_task, task)]
    ELSE self

\* task_exited, lines 38-41
task_exited(self, task) ==
    IF task \in DOMAIN self._info_by_task
    THEN LET popped == dict_pop(self._info_by_task, task)
         IN [installed |-> IF DOMAIN popped = {} THEN FALSE ELSE self.installed,
             _info_by_task |-> popped]
    ELSE self

\* get_elapsed_descheduled_time, lines 43-48: [] of the defaultdict
get_elapsed_descheduled_time(self, task) ==
    LET info == IF task \in DOMAIN self._info_by_task
                THEN self._info_by_task[task] ELSE _TimeInfo
    IN [self |-> [self EXCEPT !._info_by_task = dict_set(@, task, info)],
        ret |-> info.elapsed_descheduled]

\* trio.lowlevel.add_instrument
add_instrument(self) == [self EXCEPT !.installed = TRUE]

\* what the scheduler did with task k, and when
Event(ev) == [ev |-> ev, at |-> clock]

Happened(k, ev) == [tasks EXCEPT ![k].events = Append(@, Event(ev))]

RECURSIVE CountOf(_, _)
CountOf(events, ev) ==
    IF events = <<>> THEN 0
    ELSE (IF Head(events).ev = ev THEN 1 ELSE 0) + CountOf(Tail(events), ev)

RECURSIVE StepsOf(_)
StepsOf(S) ==
    IF S = {} THEN 0
    ELSE LET k == CHOOSE x \in S : TRUE
         IN CountOf(tasks[k].events, "before") + StepsOf(S \ {k})

TrioInit ==
    /\ hist = PyNone
    /\ points = <<>>
    /\ addExc = "none"
    /\ result = [op |-> "import", arg |-> PyNone, ret |-> PyNone, exc |-> "none"]
    /\ timer = PyNone
    /\ _start_time_by_instance = EmptyDict
    /\ _timers = {}
    /\ time_fn_calls = 0
    /\ log = <<>>
    /\ _lock = PyNone
    /\ threads = <<>>
    /\ done = <<>>
    /\ objects = <<>>
    /\ instrument = _DescheduledTimeInstrument__init__
    /\ tasks = [k \in TaskIds |-> [state |-> "descheduled", events |-> <<>>]]
    /\ clock = Float(0)

TrioUnchanged ==
    UNCHANGED <<hist, points, addExc, timer, _start_time_by_instance, _timers,
                log, _lock, threads, done, objects>>

\* time passes
Tick ==
    /\ clock < Float(MaxClock)
    /\ clock' = clock + Float(1)
    /\ UNCHANGED <<instrument, tasks, result, time_fn_calls>>
    /\ TrioUnchanged

\* the scheduler picks task k for its next step
BeforeTaskStep(k) ==
    /\ \A j \in TaskIds : tasks[j].state \in {"descheduled", "exited"}
    /\ tasks[k].state = "descheduled"
    /\ StepsOf(TaskIds) < MaxSteps
    /\ LET r == before_task_step(instrument, k, clock)
       IN IF instrument.installed
          THEN instrument' = r.self /\ time_fn_calls' = time_fn_calls + r.calls
          ELSE UNCHANGED <<instrument, time_fn_calls>>
    /\ tasks' = [Happened(k, "before") EXCEPT ![k].state = "running"]
    /\ UNCHANGED <<result, clock>>
    /\ TrioUnchanged

\* the step of task k ends the task
TaskExited(k) ==
    /\ tasks[k].state = "running"
    /\ instrument' = IF instrument.installed THEN task_exited(instrument, k)
                     ELSE instrument
    /\ tasks' = [Happened(k, "exit") EXCEPT ![k].state = "exiting"]
    /\ UNCHANGED <<result, clock, time_fn_calls>>
    /\ TrioUnchanged

\* the step of task k is over
AfterTaskStep(k) ==
    /\ tasks[k].state \in {"running", "exiting"}
    /\ LET r == after_task_step(instrument, k, clock)
       IN IF instrument.installed
          THEN instrument' = r.self /\ time_fn_calls' = time_fn_calls + r.calls
          ELSE UNCHANGED <<instrument, time_fn_calls>>
    /\ tasks' = [Happened(k, "after") EXCEPT
                    ![k].state = IF tasks[k].state = "running"
                                 THEN "descheduled" ELSE "exited"]
    /\ UNCHANGED <<result, clock>>
    /\ TrioUnchanged

\* the running task installs the instrument (test_trio.py, line 15)
AddInstrument(k) ==
    /\ tasks[k].state = "running"
    /\ ~instrument.installed
    /\ instrument' = add_instrument(instrument)
    /\ UNCHANGED <<tasks, result, clock, time_fn_calls>>
    /\ TrioUnchanged

\* the running task asks for its own descheduled time, once in a step
Asking(k) ==
    /\ tasks[k].state = "running"
    /\ Last(tasks[k].events).ev = "before"

\* instrument.get_elapsed_descheduled_time(current_task()) with the
\* instrument installed (test_trio.py, lines 24-31)
GetElapsedDescheduledTime(k) ==
    /\ Asking(k)
    /\ instrument.installed
    /\ LET r == get_elapsed_descheduled_time(instrument, k)
       IN /\ instrument' = r.self
          /\ result' = [op |-> "get_elapsed_descheduled_time", arg |-> PyInt(k),
                        ret |-> PyFloat(r.ret), exc |-> "none"]
    /\ tasks' = Happened(k, "get")
    /\ UNCHANGED <<clock, time_fn_calls>>
    /\ TrioUnchanged

\* trio_perf_counter(), lines 54-71, called by the running task
trio_perf_counter(k) ==
    /\ Asking(k)
    /\ LET r == get_elapsed_descheduled_time(add_instrument(instrument), k)
       IN /\ instrument' = r.self
          /\ result' = [op |-> "trio_perf_counter", arg |-> PyInt(k),
                        ret |-> PyFloat(clock - r.ret), exc |-> "none"]
    /\ tasks' = Happened(k, "get")
    /\ UNCHANGED <<clock, time_fn_calls>>
    /\ TrioUnchanged

TrioNext ==
    \/ Tick
    \/ \E k \in TaskIds : BeforeTaskStep(k)
    \/ \E k \in TaskIds : TaskExited(k)
    \/ \E k \in TaskIds : AfterTaskStep(k)
    \/ \E k \in TaskIds : AddInstrument(k)
    \/ \E k \in TaskIds : GetElapsedDescheduledTime(k)
    \/ \E k \in TaskIds : trio_perf_counter(k)

TrioSpec == TrioInit /\ [][TrioNext]_vars

\* ------------------------------------------------------------- claims
\* what the history says, computed from the points alone
RECURSIVE SumOf(_)
SumOf(ps) == IF ps = <<>> THEN 0 ELSE Head(ps) + SumOf(Tail(ps))

MinOf(ps) == CHOOSE x \in {ps[k] : k \in 1..Len(ps)} : \A k \in 1..Len(ps) : x <= ps[k]
MaxOf(ps) == CHOOSE x \in {ps[k] : k \in 1..Len(ps)} : \A k \in 1..Len(ps) : x >= ps[k]

BinValue(k) == hist._bins[k][1]
BinWeight(k) == hist._bins[k][2]
NBins == Len(hist._bins)

RECURSIVE WeightsFrom(_)
WeightsFrom(k) == IF k > NBins THEN 0 ELSE BinWeight(k) + WeightsFrom(k + 1)

RECURSIVE ValueTimesWeightFrom(_)
ValueTimesWeightFrom(k) ==
    IF k > NBins THEN 0 ELSE BinValue(k) * BinWeight(k) + ValueTimesWeightFrom(k + 1)

\* some add() has merged two bins
Compressed == \E k \in 1..NBins : BinWeight(k) > 1

\* C1: for a histogram constructed with max_bins >= 2, in every state between
\* calls (add() has returned) the number of bins is at most max_bins.
C1_BinsWithinCapacity ==
    hist._max_bins >= 2 => addExc = "none" /\ NBins <= hist._max_bins

\* C1 witness: an add() beyond capacity has returned and the bins are full
C1_Witness ==
    /\ hist._max_bins >= 2
    /\ result.op = "add"
    /\ hist._count > hist._max_bins
    /\ NBins = hist._max_bins

\* C2: after any sequence of add() calls the sum of value * weight over the
\* bins is the exact sum of the points added; sum() returns it and mean()
\* returns it divided by count, also after merges.
C2_SumAndMeanExact ==
    /\ ValueTimesWeightFrom(1) = SumOf(points)
    /\ result.op = "sum" => result.exc = "none" /\ result.ret.val = SumOf(points)
    /\ (result.op = "mean" /\ points # <<>>) =>
           /\ result.exc = "none"
           /\ result.ret.val * Len(points) = SumOf(points)

\* C2 witness: mean() answered after more adds than max_bins, with a merged
\* bin whose value is not a point that was added
C2_Witness ==
    /\ result.op = "mean"
    /\ hist._max_bins >= 2
    /\ Len(points) > hist._max_bins
    /\ \E k \in 1..NBins : BinWeight(k) > 1 /\ BinValue(k) \notin Points

\* C3: count is the number of add() calls made and the sum of the bins'
\* weights; every weight is an integer >= 1 (so no merge decreases count).
C3_CountIsAddsAndWeights ==
    /\ hist._count = Len(points)
    /\ WeightsFrom(1) = hist._count
    /\ \A k \in 1..NBins : BinWeight(k) \in Nat /\ BinWeight(k) >= 1
    /\ result.op = "count" => result.ret = PyInt(Len(points))

\* C3 witness: count() after merges, with fewer bins than points
C3_Witness ==
    /\ result.op = "count"
    /\ hist._max_bins >= 2
    /\ Compressed
    /\ NBins < hist._count

\* C4: after at least one add(), min and max are the smallest and the largest
\* point ever added, and every bin value lies in [min, max].
C4_MinMaxExact ==
    points # <<>> =>
        /\ hist._min = MinOf(points)
        /\ hist._max = MaxOf(points)
        /\ \A k \in 1..NBins : hist._min <= BinValue(k) /\ BinValue(k) <= hist._max
        /\ result.op = "min" => result.ret = PyFloat(MinOf(points))
        /\ result.op = "max" => result.ret = PyFloat(MaxOf(points))

\* C4 witness: merging has moved the first bin off the minimum, the smallest
\* point was not the latest one, and min still reports it
C4_Witness ==
    /\ result.op = "min"
    /\ hist._max_bins >= 2
    /\ Compressed
    /\ NBins >= 1
    /\ BinValue(1) > hist._min
    /\ points[Len(points)] > hist._min

\* C5: for a histogram with max_bins >= 2, after every add() the cost ledger has
\* len(bins) - 1 entries and costs[i] = bins[i+1].value - bins[i].value.
C5_CostsAreGaps ==
    (hist._max_bins >= 2 /\ points # <<>>) =>
        /\ Len(hist._costs) = NBins - 1
        /\ \A k \in 1..(NBins - 1) : hist._costs[k] = BinValue(k + 1) - BinValue(k)

\* C5 witness: the one merge so far joined the two middle bins of four
C5_Witness ==
    /\ result.op = "add"
    /\ hist._max_bins = 3
    /\ hist._count = 4
    /\ NBins = 3
    /\ BinWeight(2) = 2
    /\ hist._costs[1] > 0
    /\ hist._costs[2] > 0

\* C6: after every add() the bins are in non-decreasing order of value.
C6_BinsSorted ==
    \A k \in 1..(NBins - 1) : BinValue(k) <= BinValue(k + 1)

\* C6 witness: a point equal to a merged bin's value was added, and a larger
\* point was added before a smaller one
C6_Witness ==
    /\ result.op = "add"
    /\ \E k \in 1..(NBins - 1) :
           BinValue(k) = BinValue(k + 1) /\ (BinWeight(k) > 1 \/ BinWeight(k + 1) > 1)
    /\ \E j \in 1..(Len(points) - 1) : points[j] > points[j + 1]

RECURSIVE InsertSorted(_, _)
InsertSorted(x, srt) ==
    IF srt = <<>> THEN <<x>>
    ELSE IF x <= Head(srt) THEN <<x>> \o srt
    ELSE <<Head(srt)>> \o InsertSorted(x, Tail(srt))

RECURSIVE Sorted(_)
Sorted(ps) == IF ps = <<>> THEN <<>> ELSE InsertSorted(Head(ps), Sorted(Tail(ps)))

\* the linear-interpolation sample quantile of the raw points: with
\* h = q * (N - 1), sorted[floor(h)] + (h - floor(h)) * (sorted[floor(h) + 1] - sorted[floor(h)])
RefQuantile(ps, q) ==
    LET srt == Sorted(ps)
        n == Len(ps)
        h == q * (n - 1)
        floor_h == h \div Unit
        frac == h % Unit
    IN IF floor_h >= n - 1 THEN srt[n]
       ELSE srt[floor_h + 1] + (frac * (srt[floor_h + 2] - srt[floor_h + 1])) \div Unit

\* the fractions the latest quantile() call asked for, in order
Asked == IF result.arg.type = "list" THEN result.arg.items ELSE <<result.arg.val>>

\* C7: for N <= max_bins points (N >= 1) and q in [0, 1], the value quantile()
\* gives for q is the linear-interpolation sample quantile of the sorted raw points.
C7_ExactUnderCapacity ==
    (result.op = "quantile" /\ Len(points) >= 1 /\ Len(points) <= hist._max_bins) =>
        /\ result.exc = "none"
        /\ \A k \in 1..Len(Asked) :
               (0 <= Asked[k] /\ Asked[k] <= Float(1)) =>
                   result.ret.items[k] = RefQuantile(points, Asked[k])

\* C7 witness: three unequal points in a histogram of three bins, and a
\* fraction strictly inside (0, 1) whose quantile falls between two points
C7_Witness ==
    /\ result.op = "quantile"
    /\ Len(points) = 3
    /\ hist._max_bins = 3
    /\ result.arg.type = "float"
    /\ 0 < result.arg.val /\ result.arg.val < Float(1)
    /\ result.ret.items[1] \notin Points
    /\ hist._min < hist._max

\* C8: for a non-empty histogram, compressed or not, the value quantile() gives
\* for a fraction q <= 0 is min and for q >= 1 is max; a call that asks only
\* for such fractions does not fail.
C8_ClampToMinMax ==
    (result.op = "quantile" /\ hist._count >= 1) =>
        /\ (\A k \in 1..Len(Asked) : Asked[k] <= 0 \/ Asked[k] >= Float(1)) =>
               result.exc = "none"
        /\ result.exc = "none" =>
               \A k \in 1..Len(Asked) :
                   /\ Asked[k] <= 0 => result.ret.items[k] = hist._min
                   /\ Asked[k] >= Float(1) => result.ret.items[k] = hist._max

\* C8 witness: a fraction below 0 is asked of a compressed histogram whose
\* first bin has moved off the minimum
C8_Witness ==
    /\ result.op = "quantile"
    /\ result.arg.type = "float"
    /\ result.arg.val < 0
    /\ Compressed
    /\ BinValue(1) > hist._min
    /\ result.ret.items[1] = hist._min

C11_InvalidCapacityRejected ==
    (result.op = "__init__" /\ result.exc = "none") => hist._max_bins >= 1

\* C12 as stated: on every constructed histogram with a positive max_bins
\* (1 included) each add() returns without raising and leaves the bins within
\* the capacity, sorted, and the costs the gaps between neighbouring bins.
C12_AddNeverRaises ==
    hist._max_bins >= 1 =>
        /\ addExc = "none"
        /\ result.op = "add" => result.exc = "none"
        /\ NBins <= hist._max_bins
        /\ Len(hist._costs) = Max2(NBins - 1, 0)
        /\ \A k \in 1..(NBins - 1) :
               /\ BinValue(k) <= BinValue(k + 1)
               /\ hist._costs[k] = BinValue(k + 1) - BinValue(k)

\* the state the example ends in: [(1.5, 2), (3, 1)], costs [1.5], count 3,
\* min 1, max 3; before it, after add(1), add(3): [(1, 1), (3, 1)], no merge
ScenarioBState ==
    /\ points = <<Float(1), Float(3)>> =>
           /\ hist._bins = <<<<Float(1), 1>>, <<Float(3), 1>>>>
           /\ hist._costs = <<Float(2)>>
    /\ points = <<Float(1), Float(3), Float(2)>> =>
           /\ hist._bins = <<<<Float(3) \div 2, 2>>, <<Float(3), 1>>>>
           /\ hist._costs = <<Float(3) \div 2>>
           /\ hist._count = 3 /\ hist._min = Float(1) /\ hist._max = Float(3)
           /\ result.op = "count" => result.ret = PyInt(3)
           /\ result.op = "min" => result.ret = PyFloat(Float(1))
           /\ result.op = "max" => result.ret = PyFloat(Float(3))
           /\ result.op = "mean" => result.ret = PyFloat(Float(2))
           /\ result.op = "sum" => result.ret = PyFloat(Float(6))

C14_QueriesReadOnly ==
    [][/\ result'.op \in {"count", "min", "max", "mean", "std", "sum", "quantile"} =>
              hist' = hist
       /\ hist' # hist => result'.op = "add"
       /\ hist'._max_bins = hist._max_bins]_vars

\* C14 witness: std() has answered on a histogram past its capacity
C14_Witness ==
    /\ result.op = "std"
    /\ result.exc = "none"
    /\ Compressed
    /\ hist._count = MaxAdds

\* ------------------------------------------------------ claims: the timers
\* the observations the timer's observer has recorded
observed_count ==
    IF timer.observer = "HistogramObserver" THEN hist._count ELSE timer._count

\* C15: an __enter__ on a timer that is already entered raises RuntimeError
\* and leaves the recorded start time, the open block and the observer as
\* they were; the outer block still records exactly one observation: between
\* calls the observer has one observation per block that completed normally.
C15_NotReentrant ==
    /\ [](\A t \in MainThread :
              threads[t].pc = "ready" => observed_count = Len(done))
    /\ [][\A t \in MainThread :
              (/\ threads'[t].blocks = threads[t].blocks + 1
               /\ Self \in DOMAIN _start_time_by_instance) =>
                  /\ threads'[t].exc = "RuntimeError"
                  /\ threads'[t].pc = "ready"
                  /\ _start_time_by_instance' = _start_time_by_instance
                  /\ threads'[t].entered = threads[t].entered
                  /\ timer' = timer /\ hist' = hist /\ done' = done]_vars

\* C15 witness: an __enter__ was rejected inside the one block that was
\* opened, and that block has completed with its one observation
C15_Witness ==
    /\ threads[1].rejected = 1
    /\ threads[1].blocks = 2
    /\ threads[1].pc = "ready" /\ threads[1].entered = <<>>
    /\ Len(done) = 1
    /\ observed_count = 1

\* C16: whatever the sequence of _report_once() calls (by the program, by
\* _atexit, by __del__), log_fn is called at most once; _report runs only
\* while _reported is false and sets it; once _reported is true it stays
\* true and nothing more is logged.
C16_ReportedOnce ==
    /\ [](Len(log) <= 1)
    /\ [][/\ timer._reported => (timer'._reported /\ log' = log)
          /\ \A t \in MainThread :
                 (threads[t].pc = "_report" /\ threads'[t].pc = "ready") =>
                     (~timer._reported /\ timer'._reported)
          /\ \A t \in MainThread :
                 (threads[t].pc = "ready" /\ threads'[t].pc = "_report") =>
                     ~timer._reported]_vars

\* C16 witness: the report was made after two runs; a third run followed and
\* then __del__ called _report_once() again, which logged nothing
C16_Witness ==
    /\ Len(log) = 1
    /\ "runs" \in DOMAIN log[1] /\ log[1].runs = 2
    /\ observed_count = 3
    /\ ~timer.alive
    /\ threads[1].pc = "ready"

\* C17: time_fn is called once per successful __enter__ and once per
\* __exit__; each with-block that completes normally records one observation,
\* its exit reading minus its enter reading; with the AverageObserver _count
\* is the number of those blocks, _sum the sum and _max the largest of their
\* durations.
C17_OneObservationPerBlock ==
    \A t \in MainThread :
        threads[t].pc = "ready" =>
            /\ time_fn_calls =
                   2 * (threads[t].blocks - threads[t].rejected) - Len(threads[t].entered)
            /\ observed_count = Len(done)
            /\ timer.observer = "AverageObserver" =>
                   /\ timer._count = Len(done)
                   /\ timer._sum = SumOf(done)
                   /\ timer._max = IF done = <<>> THEN 0 - Inf ELSE MaxOf(done)

\* C17 witness: two blocks have completed on an AverageObserver timer, the
\* first one the longer
C17_Witness ==
    /\ timer.observer = "AverageObserver"
    /\ threads[1].pc = "ready"
    /\ Len(done) = 2
    /\ done[1] > done[2]
    /\ time_fn_calls = 4

\* C18: for each observer, _report() with no observation logs nothing; with
\* one observation it logs one line, made of that duration, without a run
\* count; with n > 1 observations it logs one line that ends 'in n runs'.
C18_ReportByCount ==
    [][\A t \in MainThread :
           (threads[t].pc = "_report" /\ threads'[t].pc = "ready") =>
               /\ observed_count = 0 => log' = log
               /\ observed_count = 1 => log' = Append(log, [duration |-> done[1]])
               /\ observed_count > 1 =>
                      /\ Len(log') = Len(log) + 1
                      /\ SubSeq(log', 1, Len(log)) = log
                      /\ "runs" \in DOMAIN Last(log')
                      /\ Last(log').runs = observed_count]_vars

\* C18 witness: a HistogramObserver timer has reported three runs
C18_Witness ==
    /\ timer.observer = "HistogramObserver"
    /\ timer._reported
    /\ Len(log) = 1
    /\ "runs" \in DOMAIN log[1] /\ log[1].runs = 3

\* C19: on a ThreadPerfTimer used by two threads, a thread is in the
\* observer's update only while it holds the lock, so one thread at a time;
\* the lock has been entered once per block that completed normally (plus the
\* one holding it now), never by a report; and no update is lost: the
\* observer's count is the number of blocks that completed normally (plus the
\* one that has written and not yet released).
C19_UpdateUnderLock ==
    LET updating == {t \in Threads : threads[t].pc \in {"observer", "update", "release"}}
        written == {t \in Threads : threads[t].pc = "release"}
    IN /\ \A t \in updating : _lock.holder = t
       /\ Cardinality(updating) <= 1
       /\ _lock.holder # 0 => _lock.holder \in updating
       /\ _lock.lock_count = Len(done) + Cardinality(updating)
       /\ timer._count = Len(done) + Cardinality(written)

\* C19 witness: thread 1 updates the observer under the lock while thread 2,
\* its block over too, waits for the lock; a report has been made meanwhile
C19_Witness ==
    /\ threads[1].pc = "update"
    /\ threads[2].pc = "_observe"
    /\ _lock.holder = 1
    /\ timer._reported

\* C20 as stated: when two threads are in with-blocks of one ThreadPerfTimer
\* at overlapping times, no __enter__ of a thread that has no block of its
\* own open raises RuntimeError, no __exit__ fails, and the duration a thread
\* observes is its own exit reading minus its own enter reading.
C20_ThreadsKeepOwnStart ==
    \A t \in Threads :
        /\ threads[t].exc = "RuntimeError" => threads[t].entered # <<>>
        /\ threads[t].exc # "KeyError"
        /\ threads[t].pc = "_observe" =>
               threads[t].duration = threads[t].current_time - Last(threads[t].entered)

\* C21: the handler run at interpreter exit calls _report_once() once on
\* every timer still registered and leaves the registry empty; a timer
\* destroyed before the handler runs has left the registry and is not
\* visited; destroying a timer calls its _report_once() once more, whether
\* or not the handler visited it.
C21_AtExitVisitsAll ==
    /\ [](\A i \in TimerIds : objects[i].state = "finalized" => i \notin _timers)
    /\ [][/\ result'.op = "_atexit" =>
              /\ _timers' = {}
              /\ \A i \in TimerIds :
                    objects'[i].calls =
                        objects[i].calls + (IF i \in _timers THEN 1 ELSE 0)
          /\ result'.op = "__del__" =>
              /\ objects'[result'.arg.val].calls = objects[result'.arg.val].calls + 1
              /\ result'.arg.val \notin _timers']_vars

\* C25: constructing a HistogramObserver raises ValueError when a quantile
\* lies outside [0, 1] or the quantiles are not strictly increasing, and
\* succeeds, keeping the quantiles, for every strictly increasing sequence
\* of values in [0, 1].
C25_QuantilesValidated ==
    (result.op = "__init__" /\ result.arg.type = "list") =>
        LET q == result.arg.items
            outside == \E k \in DOMAIN q : q[k] < Float(0) \/ q[k] > Float(1)
            unordered == \E j, k \in DOMAIN q : j < k /\ q[j] >= q[k]
        IN /\ result.exc = IF outside \/ unordered THEN "ValueError" ELSE "none"
           /\ result.exc = "none" => objects[result.ret.val]._quantiles = q

C25_Witness ==
    /\ result.op = "__init__"
    /\ result.arg = PyList(<<Unit \div 2, Unit \div 2>>)
    /\ result.exc = "ValueError"

\* ---- the Trio instrument
\* task k was passed to get_elapsed_descheduled_time
Tracked(k) == CountOf(tasks[k].events, "get") > 0

\* the elapsed descheduled time the last call on task k told
ToldElapsed(k) ==
    IF result.op = "trio_perf_counter"
    THEN Last(tasks[k].events).at - result.ret.val
    ELSE result.ret.val

\* the sum, over the deschedules since the first "get", of the time of the
\* before_task_step minus the time of the after_task_step before it
RECURSIVE DescheduledSince(_, _, _)
DescheduledSince(events, tracking, start) ==
    IF events = <<>> THEN 0
    ELSE LET e == Head(events)
         IN CASE e.ev = "get" -> DescheduledSince(Tail(events), TRUE, start)
              [] e.ev = "after" -> DescheduledSince(Tail(events), tracking, e.at)
              [] e.ev = "before" ->
                    (IF tracking THEN e.at - start ELSE 0)
                        + DescheduledSince(Tail(events), tracking, start)
              [] OTHER -> DescheduledSince(Tail(events), tracking, start)

\* the after_task_step and before_task_step events of a task between its
\* first "get" and its exit: two for each deschedule, one for a deschedule
\* that has begun
RECURSIVE TrackedHalves(_, _)
TrackedHalves(events, tracking) ==
    IF events = <<>> THEN 0
    ELSE LET e == Head(events)
         IN CASE e.ev = "get" -> TrackedHalves(Tail(events), TRUE)
              [] e.ev = "exit" -> TrackedHalves(Tail(events), FALSE)
              [] OTHER -> (IF tracking THEN 1 ELSE 0)
                              + TrackedHalves(Tail(events), tracking)

\* C22: the instrument is removed from the scheduler exactly when the last
\* tracked task exits: while installed it stays installed over every step
\* that leaves a tracked task alive or is not the exit of a tracked task,
\* and it is no longer installed after the exit of the last tracked task.
C22_RemovedWithLastTracked ==
    [][LET exiting == {k \in TaskIds : /\ tasks[k].state = "running"
                                       /\ tasks'[k].state = "exiting"}
           left == {k \in TaskIds : /\ Tracked(k)
                                    /\ tasks'[k].state \in {"descheduled", "running"}}
       IN instrument.installed =>
             (~instrument'.installed <=>
                 /\ \E k \in exiting : Tracked(k)
                 /\ left = {})]_vars

C22_Witness ==
    /\ ~instrument.installed
    /\ \E j, k \in TaskIds :
          /\ j # k
          /\ Tracked(j) /\ tasks[j].state = "exited"
          /\ Tracked(k) /\ tasks[k].state = "exiting"

C24_OthersUntouched ==
    /\ [](DOMAIN instrument._info_by_task \subseteq {k \in TaskIds : Tracked(k)})
    /\ [][\A k \in TaskIds :
             (/\ ~Tracked(k)
              /\ Len(tasks'[k].events) > Len(tasks[k].events)
              /\ Last(tasks'[k].events).ev \in {"before", "after", "exit"})
             => /\ time_fn_calls' = time_fn_calls
                /\ instrument'._info_by_task = instrument._info_by_task]_vars

C24_Witness ==
    \E j, k \in TaskIds :
        /\ ~Tracked(k) /\ tasks[k].state = "exited"
        /\ j \in DOMAIN instrument._info_by_task
        /\ instrument._info_by_task[j].elapsed_descheduled = Float(1)
        /\ instrument.installed

\* ---- the place of a new bin
\* the step is an add() on a histogram of capacity 2 or more that never
\* raised
AddStep == Len(points') > Len(points) /\ hist._max_bins >= 2 /\ addExc = "none"

\* the bins after the insertion of the point just added, before any merge
Inserted == _insert_with_cost(hist._costs, hist._bins, <<Last(points'), 1>>).l

\* the places where the new bin can have gone
Places == {i \in 0..Len(hist._bins) :
              Inserted = PyInsert(hist._bins, i, <<Last(points'), 1>>)}

\* C26: add(point) inserts the new bin (point, 1) to the right of every
\* existing bin whose value equals point, whatever its weight.
C26_RightOfEqualValues ==
    [][AddStep =>
          \E i \in Places :
              \A k \in (i + 1)..NBins : BinValue(k) # Last(points')]_vars

\* C26, amended: add(point) inserts the new bin (point, 1) where
\* bisect_right puts the tuple (point, 1): to the right of every bin of
\* smaller value and to the left of every bin of larger value, and to the
\* right of every bin of equal value when all of those have weight 1.
C26_PlacedByTupleOrder ==
    [][AddStep =>
          \E i \in Places :
              /\ \A k \in 1..i : BinValue(k) <= Last(points')
              /\ \A k \in (i + 1)..NBins : BinValue(k) >= Last(points')
              /\ (\A k \in 1..NBins :
                     BinValue(k) = Last(points') => BinWeight(k) = 1)
                 => \A k \in (i + 1)..NBins : BinValue(k) > Last(points')]_vars

\* add(-1) met the bins (-1, 2), (0, 1): the new bin went to the left of
\* the bin (-1, 2) and was merged with it
C26_Witness ==
    /\ points = <<Float(0 - 1), Float(0 - 1), Float(0), Float(0 - 1)>>
    /\ hist._max_bins = 2
    /\ hist._bins = <<<<Float(0 - 1), 3>>, <<Float(0), 1>>>>
    /\ addExc = "none"

\* ---- the merge
\* the gap between the bin at index i (from 0) of l and its right neighbour
Gap(l, i) == At(At(l, i + 1), 0) - At(At(l, i), 0)

\* l with its bins at the indexes i and i + 1 replaced by the bin m
Merged(l, i, m) == SubSeq(l, 1, i) \o <<m>> \o SubSeq(l, i + 3, Len(l))

\* C27: when the insertion makes len(bins) exceed max_bins, add() merges
\* once: with i the lowest index of a smallest cost, the bins i and i + 1
\* are replaced by one bin that has their weighted mean as value and the
\* sum of their weights as weight, and every other bin is kept as it is.
C27_OneMergeAtCheapest ==
    [][AddStep =>
          IF Len(Inserted) > hist._max_bins
          THEN \E i \in 0..(Len(Inserted) - 2) :
                  /\ \A j \in 0..(Len(Inserted) - 2) : Gap(Inserted, i) <= Gap(Inserted, j)
                  /\ \A j \in 0..(i - 1) : Gap(Inserted, i) < Gap(Inserted, j)
                  /\ \E m \in {hist'._bins[k] : k \in 1..Len(hist'._bins)} :
                        /\ m[2] = At(At(Inserted, i), 1) + At(At(Inserted, i + 1), 1)
                        /\ m[1] * m[2] =
                              At(At(Inserted, i), 0) * At(At(Inserted, i), 1)
                              + At(At(Inserted, i + 1), 0) * At(At(Inserted, i + 1), 1)
                        /\ hist'._bins = Merged(Inserted, i, m)
          ELSE hist'._bins = Inserted]_vars

\* add(0) met the bins (-1/2, 2), (2, 1) of a histogram of two bins: the
\* new bin was merged into (-1/3, 3) and the bin (2, 1) was kept
C27_Witness ==
    /\ points = <<Float(0 - 1), Float(0), Float(2), Float(0)>>
    /\ hist._max_bins = 2
    /\ hist._bins = <<<<0 - (Unit \div 3), 3>>, <<Float(2), 1>>>>
    /\ addExc = "none"

\* C28: while the number of add() calls is at most max_bins no merge has
\* happened: every bin has weight 1 and the bin values are the points
\* added, sorted; the add() number max_bins + 1 is the first to merge.
C28_NoMergeWithinCapacity ==
    /\ Len(points) <= hist._max_bins =>
          /\ addExc = "none"
          /\ hist._bins = [k \in 1..Len(points) |-> <<Sorted(points)[k], 1>>]
    /\ (hist._max_bins >= 2 /\ Len(points) = hist._max_bins + 1) =>
          /\ NBins = hist._max_bins
          /\ WeightsFrom(1) = Len(points)
          /\ Compressed

C28_Witness ==
    /\ hist._max_bins = 3
    /\ points = <<Float(2), Float(0 - 1), Float(0), Float(2)>>
    /\ hist._bins = <<<<Float(0 - 1), 1>>, <<Float(0), 1>>, <<Float(2), 2>>>>

\* ---- the trapezoid branch
\* the weight the trapezoid takes for the right bin: 1 counts as 2
RightWeight(n) == IF n.r1 = 1 THEN 2 ELSE n.r1

\* _quantile takes the trapezoid branch with unequal weights
Trapezoid(n) == ~(n.l1 <= 1 /\ n.r1 <= 1) /\ n.l1 # RightWeight(n)

\* w_l^2 - 2 s (w_l - w_r), in the units of s
Discriminant(n) == Float(n.l1 * n.l1) - 2 * n.s * (n.l1 - RightWeight(n))

\* the fractions tried in every state: k / QFine for 0 < k < QFine
QFine == 16
FineFractions == {(k * Float(1)) \div QFine : k \in 1..(QFine - 1)}

\* C29: for every reachable histogram of capacity 2 or more and every
\* fraction q with 0 < q < 1 (the fine fractions are tried), when quantile
\* takes the trapezoid branch with left weight different from right weight
\* (a right weight of 1 counted as 2), the discriminant
\* w_l^2 - 2 s (w_l - w_r) is not negative, so the assertion on bp_ratio
\* does not fail.
C29_DiscriminantNotNegative ==
    hist._max_bins >= 2 =>
        \A sums \in {quantile_sums(hist._bins)} : \A q \in FineFractions :
            \A n \in {neighbours(hist, sums, q)} :
                /\ Trapezoid(n) => Discriminant(n) >= 0
                /\ _quantile(hist, sums, q).exc = "none"

\* quantile(3/4) was asked of the bins (-1, 3), (0, 1): the trapezoid
\* branch with weights 3 and 2
C29_Witness ==
    /\ result.op = "quantile"
    /\ result.arg = PyFloat(3 * (Unit \div 4))
    /\ result.exc = "none"
    /\ hist._bins = <<<<Float(0 - 1), 3>>, <<Float(0), 1>>>>
    /\ Trapezoid(neighbours(hist, quantile_sums(hist._bins), 3 * (Unit \div 4)))

\* C30: when the body of a with-block raises, __exit__ records no
\* observation (the observer's count and statistics are unchanged) and
\* lets the exception through, but it removes the timer's start time, so
\* the timer can be entered again without RuntimeError.
C30_RaisingBodyLeavesTimerFree ==
    /\ [][\A t \in MainThread :
             (threads[t].exc_type # "None" \/ threads'[t].exc_type # "None") =>
                 /\ timer' = timer /\ hist' = hist /\ done' = done
                 /\ threads[t].pc = "__exit__" =>
                       /\ Self \notin DOMAIN _start_time_by_instance'
                       /\ threads'[t].pc = "ready"
                       /\ threads'[t].exc = threads[t].exc_type
                       /\ threads'[t].entered = Front(threads[t].entered)]_vars
    /\ [][\A t \in MainThread :
             (/\ threads[t].pc = "ready" /\ threads[t].entered = <<>>
              /\ threads'[t].blocks = threads[t].blocks + 1) =>
                 /\ threads'[t].exc = "none"
                 /\ threads'[t].pc = "__enter__"]_vars

\* C30 witness: the first block raised, nothing was observed, and the
\* timer has been entered a second time
C30_Witness ==
    /\ threads[1].blocks = 2
    /\ threads[1].rejected = 0
    /\ Len(threads[1].entered) = 1
    /\ threads[1].pc = "ready"
    /\ done = <<>>
    /\ observed_count = 0
    /\ time_fn_calls = 3

\* ---- the interpolation
\* the ratio _quantile interpolates with between the left and the right
\* bin: s / r1 between two exact bins (0 when there is no bin to the
\* right), bp_ratio in the trapezoid branch
Ratio(n) ==
    IF n.l1 <= 1 /\ n.r1 <= 1
    THEN (IF n.r1 > 0 THEN n.s \div n.r1 ELSE Float(0))
    ELSE bp_ratio(n.l1, RightWeight(n), n.s).val

\* C31: for every non-empty histogram reachable by add() calls and every
\* fraction q with 0 < q < 1 (the fine fractions are tried), the offset s
\* that quantile uses is not negative and the interpolation ratio lies in
\* [0, 1], so the value returned lies between the values of the left and
\* the right bin chosen and within [min, max].
C31_QuantileBetweenNeighbours ==
    hist._count >= 1 =>
        \A sums \in {quantile_sums(hist._bins)} : \A q \in FineFractions :
            \A n \in {neighbours(hist, sums, q)} :
                \A ratio \in {Ratio(n)} : \A r \in {_quantile(hist, sums, q)} :
                    /\ n.s >= 0
                    /\ Float(0) <= ratio /\ ratio <= Float(1)
                    /\ r.exc = "none"
                    /\ n.l0 <= r.val /\ r.val <= n.r0
                    /\ hist._min <= r.val /\ r.val <= hist._max

\* a fraction inside (0, 1) was asked of a compressed histogram and the
\* answer lies strictly between two bins of different weights
C31_Witness ==
    /\ result.op = "quantile"
    /\ result.exc = "none"
    /\ result.arg.type = "float"
    /\ result.arg.val \in FineFractions
    /\ Compressed
    /\ LET n == neighbours(hist, quantile_sums(hist._bins), result.arg.val)
       IN /\ Trapezoid(n)
          /\ n.l0 < result.ret.items[1]
          /\ result.ret.items[1] < n.r0
          /\ Float(0) < Ratio(n) /\ Ratio(n) < Float(1)

====
